---- MODULE Spec2Model ----
(***************************************************************************)
(* Model of the JSON-RPC relay client (src/src/mcpClient.ts, class         *)
(* MCPClient) and of the HTTP server that runs on top of it                *)
(* (src/src/server.ts).                                                    *)
(*                                                                         *)
(* Node runs every handler to completion on one thread, so each handler    *)
(* (a method call, a stream/socket event, a timer) is one atomic action.   *)
(* A continuation after `await` runs as a microtask, i.e. before the next  *)
(* I/O or timer event, so it is part of the action that settles the        *)
(* awaited promise.                                                        *)
(*                                                                         *)
(* Text is modelled as sequences of symbols.  Bytes on the child's stdout  *)
(* pipe are the symbols "LF" (0x0A), "SP" (0x20), the ASCII symbols        *)
(* "{", "}", digits, "r", "e", "z", "x", and the two bytes "C3" "A9" of    *)
(* the UTF-8 encoding of U+00E9.  Characters after decoding are the ASCII  *)
(* symbols, "E9" (U+00E9) and "FFFD" (the replacement character).          *)
(* A JSON text of the model is  { [digit] body }  where the digit stands   *)
(* for  "id":digit , and the body is empty, "e" (an "error" member holding *)
(* an object), "z" (an "error" member holding null) or a non-empty run of  *)
(* "r"/"E9"/"FFFD" (a "result" member holding that string).                *)
(***************************************************************************)
EXTENDS Integers, Sequences, FiniteSets, TLC

\* ---- bounds of the model ----
MaxCalls == 2
MaxChildren == 2
MaxSocks == 1

\* ids a backend may put in a message: every id a call can take, and one more
MaxId == MaxCalls + 1
Ids == 1..MaxId
NoId == 0

Digits == <<"1", "2", "3", "4", "5", "6">>
IdChars == {Digits[i] : i \in Ids}
DigitVal(c) == CHOOSE i \in Ids : Digits[i] = c
ResultChars == {"r", "E9", "FFFD"}

\* ---- JavaScript values ----
NoVal == [t |-> "undefined"]
Msg(id, result, error) == [t |-> "object", id |-> id, result |-> result, error |-> error]
\* JavaScript truthiness of resp.error
ErrorIgnored(e) == FALSE
Truthy(e) == e = "object"

\* ---- Buffer.toString(): UTF-8 decoding of one chunk ----
RECURSIVE Utf8Decode(_)
Utf8Decode(bs) ==
  IF bs = <<>> THEN <<>>
  ELSE IF Head(bs) = "C3"
       THEN IF Len(bs) >= 2 /\ bs[2] = "A9"
            THEN <<"E9">> \o Utf8Decode(SubSeq(bs, 3, Len(bs)))
            ELSE <<"FFFD">> \o Utf8Decode(Tail(bs))
       ELSE IF Head(bs) = "A9"
            THEN <<"FFFD">> \o Utf8Decode(Tail(bs))
            ELSE <<Head(bs)>> \o Utf8Decode(Tail(bs))

\* ---- String.prototype.trim ----
RECURSIVE TrimLeft(_)
TrimLeft(s) == IF s # <<>> /\ Head(s) = "SP" THEN TrimLeft(Tail(s)) ELSE s
RECURSIVE TrimRight(_)
TrimRight(s) ==
  IF s # <<>> /\ s[Len(s)] = "SP" THEN TrimRight(SubSeq(s, 1, Len(s) - 1)) ELSE s
Trim(s) == TrimRight(TrimLeft(s))

\* ---- String.prototype.indexOf("\n"), 0 when absent (1-based otherwise) ----
IndexOfLF(s) ==
  IF \E i \in 1..Len(s) : s[i] = "LF"
  THEN CHOOSE i \in 1..Len(s) : s[i] = "LF" /\ \A j \in 1..(i - 1) : s[j] # "LF"
  ELSE 0

\* ---- JSON.parse ----
RECURSIVE DropSpaces(_)
DropSpaces(s) ==
  IF s = <<>> THEN <<>>
  ELSE IF Head(s) = "SP" THEN DropSpaces(Tail(s))
       ELSE <<Head(s)>> \o DropSpaces(Tail(s))
BodyOk(b) ==
  \/ b = <<>>
  \/ b = <<"e">>
  \/ b = <<"z">>
  \/ \A i \in 1..Len(b) : b[i] \in ResultChars
BodyResult(b) == IF b # <<>> /\ b[1] \in ResultChars THEN b ELSE <<>>
BodyError(b) ==
  IF b = <<"e">> THEN "object" ELSE IF b = <<"z">> THEN "null" ELSE "undefined"
\* the members between the braces: an optional id digit, then the body
MembersOk(m) ==
  IF m # <<>> /\ m[1] \in IdChars THEN BodyOk(Tail(m)) ELSE BodyOk(m)
MembersValue(m) ==
  IF m # <<>> /\ m[1] \in IdChars
  THEN Msg(DigitVal(m[1]), BodyResult(Tail(m)), BodyError(Tail(m)))
  ELSE Msg(NoId, BodyResult(m), BodyError(m))
\* JSONParseOk: JSON.parse returns; JSONParse: the value it returns
JSONParseOk(text) ==
  LET s == DropSpaces(text) IN
    /\ Len(s) >= 2
    /\ s[1] = "{"
    /\ s[Len(s)] = "}"
    /\ MembersOk(SubSeq(s, 2, Len(s) - 1))
JSONParse(text) ==
  LET s == DropSpaces(text) IN MembersValue(SubSeq(s, 2, Len(s) - 1))

\* ---- what a backend writes: JSON.stringify of a message, as bytes ----
RECURSIVE Utf8Encode(_)
Utf8Encode(cs) ==
  IF cs = <<>> THEN <<>>
  ELSE IF Head(cs) = "E9" THEN <<"C3", "A9">> \o Utf8Encode(Tail(cs))
       ELSE <<Head(cs)>> \o Utf8Encode(Tail(cs))
Stringify(m) ==
  <<"{">> \o (IF m.id = NoId THEN <<>> ELSE <<Digits[m.id]>>)
          \o (IF m.error = "object" THEN <<"e">>
              ELSE IF m.error = "null" THEN <<"z">> ELSE m.result)
          \o <<"}">>

\* ---- inputs of the environment ----
\* lines a child process may print on stdout (without the newline)
StdoutMsgs ==
  {Msg(i, <<"r">>, "undefined") : i \in Ids \cup {NoId}}
    \cup {Msg(i, <<>>, "object") : i \in Ids}
    \cup {Msg(1, <<"E9">>, "undefined")}
StdoutLines ==
  {Utf8Encode(Stringify(m)) : m \in StdoutMsgs} \cup {<<"x">>, <<"SP">>, <<"SP", "{", "r", "}">>}
\* texts a socket may deliver as one message
WsMsgs ==
  {Msg(i, <<"r">>, "undefined") : i \in Ids \cup {NoId}}
    \cup {Msg(i, <<>>, e) : i \in Ids, e \in {"object", "null"}}
WsTexts == {Stringify(m) : m \in WsMsgs} \cup {<<"x">>}
\* chunks a child may print on stderr
ReadyPhrases == {"MCP Uber server started", "Server listening"}
StderrData == ReadyPhrases \cup {"npm WARN"}

\* the lines of a child whose output is cut into chunks at any byte
FramingLines ==
  {Utf8Encode(Stringify(m)) :
     m \in {Msg(1, <<"r">>, "undefined"), Msg(2, <<"r">>, "undefined"),
            Msg(1, <<"E9">>, "undefined")}}
    \cup {<<"x">>, <<"SP">>}
Prefixes(l) == {SubSeq(l, 1, n) : n \in 0..Len(l)}
LinePrefixes == UNION {Prefixes(l) : l \in FramingLines}
\* what may follow a newline inside one chunk: nothing, the start of the next
\* line, or the whole next line with its newline
AfterNewline == LinePrefixes \cup {l \o <<"LF">> : l \in FramingLines}
\* what is left of text t after its first n bytes
Drop(t, n) == SubSeq(t, n + 1, Len(t))
Extends(t, sofar) == Len(t) >= Len(sofar) /\ SubSeq(t, 1, Len(sofar)) = sofar
\* the chunks a stream that has printed `sofar` since its last newline may deliver:
\* more of the same line, or the rest of the line, its newline and what follows
NextChunks(sofar) ==
  {Drop(p, Len(sofar)) : p \in {x \in LinePrefixes : Extends(x, sofar) /\ x # sofar}}
    \cup {Drop(l, Len(sofar)) \o <<"LF">> \o rest :
            l \in {x \in FramingLines : Extends(x, sofar)},
            rest \in AfterNewline}
\* the bytes of `bs` after its last newline
RECURSIVE AfterLastLF(_)
AfterLastLF(bs) ==
  IF IndexOfLF(bs) = 0 THEN bs ELSE AfterLastLF(SubSeq(bs, IndexOfLF(bs) + 1, Len(bs)))

VARIABLES
  child,        \* this.child: 0 (null) or the process it references
  ws,           \* this.ws: 0 (null) or the socket it references
  idCounter,    \* this.idCounter
  pending,      \* this.pending: id -> the call whose callback is registered, 0 if none
  buffer,       \* this.buffer
  isReady,      \* this.isReady
  mcpReady,     \* server.ts: let mcpReady
  mode,         \* server.ts initMCP: MCP_MODE, "local" or "remote"
  initDone,     \* server.ts initMCP: its 3 s wait is over and it has returned
  procs,        \* every process spawned so far: "none", "running", "killed", "exited"
  socks,        \* every socket created so far: readyState, or "none"
  calls,        \* every sendRPC promise: its id, its outcome, the timer it armed
  timers,       \* the calls whose 30 s timer is armed
  graceTimers,  \* startLocal invocations waiting on their 2 s timer
  started,      \* the promises of the startLocal calls that spawned a child: how many
                \* have resolved, how many have rejected
  raw,          \* bytes each stdout stream has printed since its last newline
  trace         \* how the last handler dispatched what it received: the callbacks it
                \* invoked, the "event", "notification" and "log" events it emitted and
                \* the HTTP response it sent ("http")

vars == <<child, ws, idCounter, pending, buffer, isReady, mcpReady, mode, initDone, procs,
          socks, calls, timers, graceTimers, started, raw, trace>>

Children == 1..MaxChildren
Socks == 1..MaxSocks
Calls == 1..MaxCalls

NoCall == [id |-> 0, method |-> "", probe |-> FALSE, kind |-> "none",
           val |-> NoVal, by |-> NoVal, n |-> 0]
Settled == {"resolved", "remoteError", "timeout", "noConnection", "writeError"}
nCalls == Cardinality({k \in Calls : calls[k].kind # "none"})

Ev(name, arg) == [ev |-> name, arg |-> arg]
\* what handleStdoutChunk and handleRpcResponse do with a line or message: invoke a
\* pending callback ("cb") or emit "event", "notification" or "log"; what a route
\* handler of server.ts does with a request: answer it or call a tool ("http")
DispatchKinds == {"cb", "event", "notification", "log", "http"}

Init ==
  /\ child = 0
  /\ ws = 0
  /\ idCounter = 0
  /\ pending = [i \in Ids |-> 0]
  /\ buffer = <<>>
  /\ isReady = FALSE
  /\ mcpReady = FALSE
  /\ mode \in {"local", "remote"}
  /\ initDone = FALSE
  /\ procs = [c \in Children |-> "none"]
  /\ socks = [s \in Socks |-> "none"]
  /\ calls = [k \in Calls |-> NoCall]
  /\ timers = {}
  /\ graceTimers = 0
  /\ started = [resolved |-> 0, rejected |-> 0]
  /\ raw = [c \in Children |-> <<>>]
  /\ trace = <<>>

\* ---- the client's handlers, as functions of the fields they touch ----
\* the fields a handler reads and writes, at the start of a handler
Fields ==
  [idCounter |-> idCounter, pending |-> pending, timers |-> timers, calls |-> calls,
   buffer |-> buffer, isReady |-> isReady, started |-> started, trace |-> <<>>]

Emit(st, name, arg) == [st EXCEPT !.trace = Append(@, Ev(name, arg))]

\* resolve(v) / reject(v) of call k's promise: only the first one takes effect
SettlePromise(cs, k, kind, val, by) ==
  [cs EXCEPT ![k] =
     IF cs[k].kind = "pending"
     THEN [cs[k] EXCEPT !.kind = kind, !.val = val, !.by = by, !.n = cs[k].n + 1]
     ELSE [cs[k] EXCEPT !.n = cs[k].n + 1]]

\* sendRPC: the value the promise resolves with
ResolvePayload(resp) == [t |-> "string", chars |-> resp.result]
ResolveValue(resp) == resp

\* sendRPC: the callback registered in this.pending for call k
CallbackKeepsTimer(st, k, resp) ==
  LET st1 == [st EXCEPT !.trace = Append(@, Ev("cb", resp))]
  IN IF Truthy(resp.error)
     THEN [st1 EXCEPT !.calls = SettlePromise(@, k, "remoteError", [t |-> "Error", error |-> resp.error], resp)]
     ELSE [st1 EXCEPT !.calls = SettlePromise(@, k, "resolved", ResolveValue(resp), resp)]
Callback(st, k, resp) ==
  LET st1 == [st EXCEPT !.timers = @ \ {k},
                        !.trace = Append(@, Ev("cb", resp))]
  IN IF Truthy(resp.error)
     THEN [st1 EXCEPT !.calls = SettlePromise(@, k, "remoteError", [t |-> "Error", error |-> resp.error], resp)]
     ELSE [st1 EXCEPT !.calls = SettlePromise(@, k, "resolved", ResolveValue(resp), resp)]

\* handleRpcResponse: this.pending.get(obj.id)
LookupOldest(pend, obj) ==
  IF \E i \in Ids : pend[i] # 0
  THEN pend[CHOOSE i \in Ids : pend[i] # 0 /\ \A j \in Ids : pend[j] # 0 => pend[i] <= pend[j]]
  ELSE 0
Lookup(pend, obj) == pend[obj.id]

HandleRpcResponseKeepsEntry(st, obj) ==
  IF obj.id # NoId
  THEN IF Lookup(st.pending, obj) # 0
       THEN Callback(st, Lookup(st.pending, obj), obj)
       ELSE Emit(st, "event", obj)
  ELSE Emit(st, "notification", obj)

HandleRpcResponseAnyId(st, obj) ==
  IF obj.id # NoId
  THEN IF Lookup(st.pending, obj) # 0
       THEN [Callback(st, Lookup(st.pending, obj), obj) EXCEPT !.pending[obj.id] = 0]
       ELSE IF LookupOldest(st.pending, obj) # 0
            THEN Callback(st, LookupOldest(st.pending, obj), obj)
            ELSE Emit(st, "event", obj)
  ELSE Emit(st, "notification", obj)

HandleRpcResponse(st, obj) ==
  IF obj.id # NoId
  THEN IF Lookup(st.pending, obj) # 0
       THEN [Callback(st, Lookup(st.pending, obj), obj) EXCEPT !.pending[obj.id] = 0]
       ELSE Emit(st, "event", obj)
  ELSE Emit(st, "notification", obj)

\* handleStdoutChunk: the while loop over the buffered lines
RECURSIVE SplitLinesDropsBadLine(_)
SplitLinesDropsBadLine(st) ==
  LET idx == IndexOfLF(st.buffer) IN
  IF idx = 0 THEN st
  ELSE LET line == Trim(SubSeq(st.buffer, 1, idx - 1))
           st1 == [st EXCEPT !.buffer = SubSeq(st.buffer, idx + 1, Len(st.buffer))]
       IN IF line = <<>> THEN SplitLinesDropsBadLine(st1)
          ELSE IF JSONParseOk(line)
               THEN SplitLinesDropsBadLine(HandleRpcResponse(st1, JSONParse(line)))
               ELSE SplitLinesDropsBadLine(st1)
RECURSIVE SplitLines(_)
SplitLines(st) ==
  LET idx == IndexOfLF(st.buffer) IN
  IF idx = 0 THEN st
  ELSE LET line == Trim(SubSeq(st.buffer, 1, idx - 1))
           st1 == [st EXCEPT !.buffer = SubSeq(st.buffer, idx + 1, Len(st.buffer))]
       IN IF line = <<>> THEN SplitLines(st1)
          ELSE IF JSONParseOk(line)
               THEN SplitLines(HandleRpcResponse(st1, JSONParse(line)))
               ELSE SplitLines(Emit(st1, "log", [t |-> "string", chars |-> line]))

HandleStdoutChunk(st, chunk) == SplitLines([st EXCEPT !.buffer = @ \o chunk])

\* sendRPC: ++this.idCounter
NextIdStuck(counter) == IF counter = 0 THEN 1 ELSE counter
NextId(counter) == counter + 1

\* sendRPC: which transport the request is written to
Route(writeThrows) ==
  IF child # 0 THEN (IF writeThrows THEN "childThrows" ELSE "child")
  ELSE IF ws # 0 /\ socks[ws] = "open" THEN "ws"
  ELSE "none"

\* sendRPC: the no-connection tail (pending.delete, clearTimeout, reject)
FailNoConnectionLeak(st, k, id) ==
  [st EXCEPT !.calls = SettlePromise(@, k, "noConnection", [t |-> "Error", error |-> "No MCP connection"], NoVal)]
FailNoConnection(st, k, id) ==
  [st EXCEPT !.pending[id] = 0,
             !.timers = @ \ {k},
             !.calls = SettlePromise(@, k, "noConnection", [t |-> "Error", error |-> "No MCP connection"], NoVal)]

\* sendRPC, the promise executor; k names the promise it creates
SendRPCWriteErrorKeepsTimer(st, k, method, probe, route) ==
  LET id == NextId(st.idCounter)
      st1 == [st EXCEPT !.idCounter = id,
                        !.timers = @ \cup {k},
                        !.pending[id] = k,
                        !.calls[k] = [id |-> id, method |-> method, probe |-> probe,
                                      kind |-> "pending", val |-> NoVal, by |-> NoVal,
                                      n |-> 0]]
  IN CASE route = "child" -> st1
       [] route = "childThrows" ->
            [st1 EXCEPT !.pending[id] = 0,
                        !.calls = SettlePromise(@, k, "writeError", [t |-> "Error", error |-> "write"], NoVal)]
       [] route = "ws" -> st1
       [] OTHER -> FailNoConnection(st1, k, id)
SendRPC(st, k, method, probe, route) ==
  LET id == NextId(st.idCounter)
      st1 == [st EXCEPT !.idCounter = id,
                        !.timers = @ \cup {k},
                        !.pending[id] = k,
                        !.calls[k] = [id |-> id, method |-> method, probe |-> probe,
                                      kind |-> "pending", val |-> NoVal, by |-> NoVal,
                                      n |-> 0]]
  IN CASE route = "child" -> st1
       [] route = "childThrows" ->
            [st1 EXCEPT !.pending[id] = 0,
                        !.timers = @ \ {k},
                        !.calls = SettlePromise(@, k, "writeError", [t |-> "Error", error |-> "write"], NoVal)]
       [] route = "ws" -> st1
       [] OTHER -> FailNoConnection(st1, k, id)

\* sendRPC: the setTimeout callback of call k
OnTimeoutKeepsEntry(st, k) ==
  [st EXCEPT !.timers = @ \ {k},
             !.calls = SettlePromise(@, k, "timeout", [t |-> "Error", error |-> "RPC timeout"], NoVal)]
OnTimeout(st, k) ==
  [st EXCEPT !.pending[st.calls[k].id] = 0,
             !.timers = @ \ {k},
             !.calls = SettlePromise(@, k, "timeout", [t |-> "Error", error |-> "RPC timeout"], NoVal)]

\* server.ts: the "ready" and "exit" listeners, run inside emit
RECURSIVE Listeners(_, _)
Listeners(flag, tr) ==
  IF tr = <<>> THEN flag
  ELSE Listeners(IF Head(tr).ev = "ready" THEN TRUE
                 ELSE IF Head(tr).ev = "exit" THEN FALSE ELSE flag, Tail(tr))

\* startLocal after `await this.sendRPC(...)`: both the try and the catch
\* branch set isReady and emit "ready" unless it is already set, and startLocal returns
ProbeSettledIn(st) ==
  \E k \in Calls : st.calls[k].probe /\ st.calls[k].kind \in Settled
                     /\ calls[k].kind \notin Settled
\* the same without the catch branch: a probe that fails rejects startLocal
AfterProbeOnSuccess(st) ==
  IF \E k \in Calls : st.calls[k].probe /\ st.calls[k].kind = "resolved"
                         /\ calls[k].kind \notin Settled
  THEN LET st1 == [st EXCEPT !.started.resolved = @ + 1]
       IN IF ~st.isReady THEN Emit([st1 EXCEPT !.isReady = TRUE], "ready", NoVal) ELSE st1
  ELSE IF ProbeSettledIn(st) THEN [st EXCEPT !.started.rejected = @ + 1] ELSE st
AfterProbe(st) ==
  IF ProbeSettledIn(st)
  THEN LET st1 == [st EXCEPT !.started.resolved = @ + 1]
       IN IF ~st.isReady THEN Emit([st1 EXCEPT !.isReady = TRUE], "ready", NoVal) ELSE st1
  ELSE st

\* the handler's writes, then the microtasks it queued, then the listeners
Commit(st0) ==
  LET st == AfterProbe(st0) IN
    /\ trace' = SelectSeq(st.trace, LAMBDA e : e.ev \in DispatchKinds)
    /\ calls' = st.calls
    /\ idCounter' = st.idCounter
    /\ pending' = st.pending
    /\ timers' = st.timers
    /\ buffer' = st.buffer
    /\ isReady' = st.isReady
    /\ started' = st.started
    /\ mcpReady' = Listeners(mcpReady, st.trace)

\* ---- actions: one per method, event handler or timer ----
FreshChild == CHOOSE c \in Children : procs[c] = "none" /\ \A d \in 1..(c - 1) : procs[d] # "none"
FreshSock == CHOOSE s \in Socks : socks[s] = "none" /\ \A d \in 1..(s - 1) : socks[d] # "none"

\* startLocal up to its `await` on the 2 s timer
StartLocalAlwaysSpawns ==
  /\ \E c \in Children : procs[c] = "none"
  /\ nCalls + graceTimers < MaxCalls
  /\ child' = FreshChild
  /\ procs' = [procs EXCEPT ![FreshChild] = "running"]
  /\ graceTimers' = graceTimers + 1
  /\ trace' = <<>>
  /\ UNCHANGED <<mode, initDone, ws, idCounter, pending, buffer, isReady, mcpReady, socks, calls,
                 timers, started, raw>>
StartLocal ==
  IF child # 0
  THEN /\ trace' = <<>>
       /\ UNCHANGED <<mode, initDone, child, ws, idCounter, pending, buffer, isReady, mcpReady, procs,
                      socks, calls, timers, graceTimers, started, raw>>
  ELSE /\ \E c \in Children : procs[c] = "none"
       /\ nCalls + graceTimers < MaxCalls   \* keeps a promise for its probe
       /\ child' = FreshChild
       /\ procs' = [procs EXCEPT ![FreshChild] = "running"]
       /\ graceTimers' = graceTimers + 1
       /\ trace' = <<>>
       /\ UNCHANGED <<mode, initDone, ws, idCounter, pending, buffer, isReady, mcpReady, socks, calls,
                      timers, started, raw>>

\* startLocal from the end of the 2 s wait on: the tools/list probe
GraceElapsedAlwaysProbes ==
  /\ graceTimers > 0
  /\ graceTimers' = graceTimers - 1
  /\ nCalls < MaxCalls
  /\ \E w \in BOOLEAN :
       /\ w => child # 0
       /\ Commit(SendRPC(Fields, nCalls + 1, "tools/list", TRUE, Route(w)))
  /\ UNCHANGED <<mode, initDone, child, ws, procs, socks, raw>>
GraceElapsed ==
  /\ graceTimers > 0
  /\ graceTimers' = graceTimers - 1
  /\ IF isReady
     THEN Commit([Fields EXCEPT !.started.resolved = @ + 1])
     ELSE /\ nCalls < MaxCalls
          /\ \E w \in BOOLEAN :
               /\ w => child # 0
               /\ Commit(SendRPC(Fields, nCalls + 1, "tools/list", TRUE, Route(w)))
  /\ UNCHANGED <<mode, initDone, child, ws, procs, socks, raw>>

\* child.stdout "data"
ChildStdoutData(c, chunk) ==
  /\ procs[c] \in {"running", "killed"}
  /\ UNCHANGED <<mode, initDone, child, ws, procs, socks, graceTimers>>
  /\ raw' = [raw EXCEPT ![c] = AfterLastLF(raw[c] \o chunk)]
  /\ Commit(HandleStdoutChunk(Fields, Utf8Decode(chunk)))

\* child.stderr "data"
OnStderr(st, data) ==
  Emit(IF data \in ReadyPhrases /\ ~st.isReady
       THEN Emit([st EXCEPT !.isReady = TRUE], "ready", NoVal)
       ELSE st,
       "stderr", [t |-> "string", chars |-> data])

ChildStderrData(c, data) ==
  /\ procs[c] \in {"running", "killed"}
  /\ Commit(OnStderr(Fields, data))
  /\ UNCHANGED <<mode, initDone, child, ws, procs, socks, graceTimers, raw>>

\* child "exit"
OnExitClearsPending(st) ==
  [Emit(st, "exit", NoVal) EXCEPT !.isReady = FALSE, !.pending = [i \in Ids |-> 0]]
OnExit(st) == [Emit(st, "exit", NoVal) EXCEPT !.isReady = FALSE]

ChildExit(c) ==
  /\ procs[c] \in {"running", "killed"}
  /\ procs' = [procs EXCEPT ![c] = "exited"]
  /\ raw' = [raw EXCEPT ![c] = <<>>]
  /\ child' = 0
  /\ Commit(OnExit(Fields))
  /\ UNCHANGED <<mode, initDone, ws, socks, graceTimers>>

\* connectRemote
ConnectRemote ==
  IF ws # 0 /\ socks[ws] = "open"
  THEN /\ trace' = <<>>
       /\ UNCHANGED <<mode, initDone, child, ws, idCounter, pending, buffer, isReady, mcpReady, procs,
                      socks, calls, timers, graceTimers, started, raw>>
  ELSE /\ \E s \in Socks : socks[s] = "none"
       /\ ws' = FreshSock
       /\ socks' = [socks EXCEPT ![FreshSock] = "connecting"]
       /\ trace' = <<>>
       /\ UNCHANGED <<mode, initDone, child, idCounter, pending, buffer, isReady, mcpReady, procs, calls,
                      timers, graceTimers, started, raw>>

\* ws "open"
OnOpen(st) == Emit([st EXCEPT !.isReady = TRUE], "ready", NoVal)

WsOpen(s) ==
  /\ socks[s] = "connecting"
  /\ socks' = [socks EXCEPT ![s] = "open"]
  /\ Commit(OnOpen(Fields))
  /\ UNCHANGED <<mode, initDone, child, ws, procs, graceTimers, raw>>

\* ws "message"
OnMessage(st, text) ==
  IF JSONParseOk(text) THEN HandleRpcResponse(st, JSONParse(text)) ELSE st

WsMessage(s, text) ==
  /\ socks[s] \in {"open", "closing"}
  /\ UNCHANGED <<mode, initDone, child, ws, procs, socks, graceTimers, raw>>
  /\ Commit(OnMessage(Fields, text))

\* ws "close"
OnClose(st) == Emit([st EXCEPT !.isReady = FALSE], "close", NoVal)

WsClose(s) ==
  /\ socks[s] \in {"connecting", "open", "closing"}
  /\ socks' = [socks EXCEPT ![s] = "closed"]
  /\ ws' = 0
  /\ Commit(OnClose(Fields))
  /\ UNCHANGED <<mode, initDone, child, procs, graceTimers, raw>>

\* ws "error": the socket then closes
WsError(s) ==
  /\ socks[s] \in {"connecting", "open"}
  /\ socks' = [socks EXCEPT ![s] = "closing"]
  /\ Commit(Emit(Fields, "error", NoVal))
  /\ UNCHANGED <<mode, initDone, child, ws, procs, graceTimers, raw>>

\* ready()
Ready == isReady

\* close()
CloseKeepsReady ==
  /\ procs' = IF child # 0 /\ procs[child] = "running"
              THEN [procs EXCEPT ![child] = "killed"] ELSE procs
  /\ child' = 0
  /\ socks' = IF ws # 0 /\ socks[ws] \in {"connecting", "open"}
              THEN [socks EXCEPT ![ws] = "closing"] ELSE socks
  /\ ws' = 0
  /\ Commit(Fields)
  /\ UNCHANGED <<mode, initDone, graceTimers, raw>>
Close ==
  /\ procs' = IF child # 0 /\ procs[child] = "running"
              THEN [procs EXCEPT ![child] = "killed"] ELSE procs
  /\ child' = 0
  /\ socks' = IF ws # 0 /\ socks[ws] \in {"connecting", "open"}
              THEN [socks EXCEPT ![ws] = "closing"] ELSE socks
  /\ ws' = 0
  /\ Commit([Fields EXCEPT !.isReady = FALSE])
  /\ UNCHANGED <<mode, initDone, graceTimers, raw>>

\* listTools / callTool and the uber_* wrappers
Call(method) ==
  /\ nCalls + graceTimers < MaxCalls   \* keeps a promise for each probe still to come
  /\ \E w \in BOOLEAN :
       /\ w => child # 0
       /\ Commit(SendRPC(Fields, nCalls + 1, method, FALSE, Route(w)))
  /\ UNCHANGED <<mode, initDone, child, ws, procs, socks, graceTimers, raw>>

ListTools == Call("tools/list")
CallTool == Call("tools/call")

\* the 30 s timer of call k fires; timers of equal delay fire in the order armed
Timeout(k) ==
  /\ k \in timers
  /\ \A j \in timers : j >= k
  /\ UNCHANGED <<mode, initDone, child, ws, procs, socks, graceTimers, raw>>
  /\ Commit(OnTimeout(Fields, k))

\* ---- the relay as server.ts runs it ----
NoneSpawned == \A c \in Children : procs[c] = "none"
NoneConnected == \A s \in Socks : socks[s] = "none"
\* initMCP calls startLocal once in local mode, connectRemote once in remote mode
Start == mode = "local" /\ (child = 0 => NoneSpawned) /\ StartLocal
Connect == mode = "remote" /\ (ws = 0 \/ socks[ws] # "open" => NoneConnected) /\ ConnectRemote
\* a child that prints whole lines, each delivered as one chunk
WholeLines == {l \o <<"LF">> : l \in StdoutLines}

Next ==
  \/ Start
  \/ GraceElapsed
  \/ \E c \in Children : \E chunk \in WholeLines : ChildStdoutData(c, chunk)
  \/ \E c \in Children : \E data \in StderrData : ChildStderrData(c, data)
  \/ \E c \in Children : ChildExit(c)
  \/ Connect
  \/ \E s \in Socks : WsOpen(s)
  \/ \E s \in Socks : \E text \in WsTexts : WsMessage(s, text)
  \/ \E s \in Socks : WsClose(s)
  \/ \E s \in Socks : WsError(s)
  \/ Close
  \/ ListTools
  \/ CallTool
  \/ \E k \in Calls : Timeout(k)

Spec == Init /\ [][Next]_vars

\* ---- the client class under any order of its public methods ----
ClientNext ==
  \/ StartLocal
  \/ GraceElapsed
  \/ \E c \in Children : \E data \in StderrData : ChildStderrData(c, data)
  \/ \E c \in Children : ChildExit(c)
  \/ ConnectRemote
  \/ \E s \in Socks : WsOpen(s)
  \/ \E s \in Socks : WsClose(s)
  \/ \E s \in Socks : WsError(s)
  \/ Close
  \/ \E k \in Calls : Timeout(k)

ClientSpec == Init /\ [][ClientNext]_vars

\* ---- a child whose output arrives in chunks cut at any byte ----
FramingNext ==
  \/ Start
  \/ \E c \in Children : \E chunk \in NextChunks(raw[c]) : ChildStdoutData(c, chunk)
  \/ ListTools
  \/ GraceElapsed

FramingSpec == Init /\ [][FramingNext]_vars

\* ---- a client that starts a child again after the previous one has exited ----
\* what such a child prints: a response, a notification and a line of plain text
RestartLines ==
  {Utf8Encode(Stringify(m)) : m \in {Msg(1, <<"r">>, "undefined"), Msg(NoId, <<"r">>, "undefined")}}
    \cup {<<"x">>}
\* the chunks of a stream that flushes at the latest at each newline: more of the line
\* it is printing, or the rest of that line with its newline
LineChunks(sofar) ==
  {Drop(p, Len(sofar)) :
     p \in {x \in UNION {Prefixes(l) : l \in RestartLines} : Extends(x, sofar) /\ x # sofar}}
    \cup {Drop(l, Len(sofar)) \o <<"LF">> : l \in {x \in RestartLines : Extends(x, sofar)}}
RestartNext ==
  \/ StartLocal
  \/ GraceElapsed
  \/ \E c \in Children : \E chunk \in LineChunks(raw[c]) : ChildStdoutData(c, chunk)
  \/ \E c \in Children : ChildExit(c)
  \/ \E k \in Calls : Timeout(k)

RestartSpec == Init /\ [][RestartNext]_vars

\* ---- the relay with its timers firing ----
\* Node fires every armed timer: the 2 s timer of startLocal, the 30 s timer of a call
LiveSpec ==
  /\ Spec
  /\ WF_vars(GraceElapsed)
  /\ \A k \in Calls : WF_vars(Timeout(k))

\* ---- the HTTP routes of server.ts ----
\* a body or query field: absent, the number 0, or another value (a non-zero number
\* or a non-empty string)
FieldValues == {"undefined", "zero", "value"}
FieldNames == {"access_token", "request_id", "product_id", "start_latitude",
               "start_longitude", "end_latitude", "end_longitude"}
\* a request with every field set, and the requests in which one field departs from it
WellFormed == [f \in FieldNames |-> "value"]
Bodies ==
  {WellFormed}
    \cup {[WellFormed EXCEPT ![f] = v] : f \in FieldNames, v \in FieldValues \ {"value"}}
\* JavaScript `!v`
Falsy(v) == v \in {"undefined", "zero"}

\* the routes that call a tool of the backend
UberRoutes ==
  {"/uber/auth-url", "/uber/set-access-token", "/uber/price-estimates",
   "/uber/request-ride", "/uber/ride-status/:request_id", "/uber/cancel-ride"}
\* the routes registered with the checkMCPReady middleware: all of them
AllButRideStatus == UberRoutes \ {"/uber/ride-status/:request_id"}
ProtectedRoutes == UberRoutes
\* the client method each route awaits
ToolOf(route) ==
  CASE route = "/uber/auth-url" -> "uber_get_auth_url"
    [] route = "/uber/set-access-token" -> "uber_set_access_token"
    [] route = "/uber/price-estimates" -> "uber_get_price_estimates"
    [] route = "/uber/request-ride" -> "uber_request_ride"
    [] route = "/uber/ride-status/:request_id" -> "uber_get_ride_status"
    [] route = "/uber/cancel-ride" -> "uber_cancel_ride"
\* the fields each route tests with `!field` before it calls the client
Coordinates == {"start_latitude", "start_longitude", "end_latitude", "end_longitude"}
Tested(route) ==
  CASE route = "/uber/set-access-token" -> {"access_token"}
    [] route = "/uber/price-estimates" -> Coordinates
    [] route = "/uber/request-ride" -> {"product_id"} \cup Coordinates
    [] route = "/uber/cancel-ride" -> {"request_id"}
    [] OTHER -> {}

\* the requests a route can tell apart: those that differ in a field it reads
BodiesOf(route) ==
  {WellFormed}
    \cup {[WellFormed EXCEPT ![f] = v] : f \in Tested(route), v \in FieldValues \ {"value"}}

\* res.status(status).json(...); status 0: the handler awaits call `call` of `tool`
Respond(st, route, status, tool, call) ==
  Emit(st, "http", [route |-> route, status |-> status, tool |-> tool, call |-> call])

\* checkMCPReady
CheckMCPReady(route) == route \in ProtectedRoutes => mcpReady

\* a request to one of the /uber routes, up to the handler's `await`
Request(route, body) ==
  /\ UNCHANGED <<mode, initDone, child, ws, procs, socks, graceTimers, raw>>
  /\ IF ~CheckMCPReady(route)
     THEN Commit(Respond(Fields, route, 503, "", 0))
     ELSE IF \E f \in Tested(route) : Falsy(body[f])
          THEN Commit(Respond(Fields, route, 400, "", 0))
          ELSE /\ nCalls + graceTimers < MaxCalls
               /\ \E w \in BOOLEAN :
                    /\ w => child # 0
                    /\ Commit(Respond(SendRPC(Fields, nCalls + 1, "tools/call", FALSE, Route(w)),
                                      route, 0, ToolOf(route), nCalls + 1))

\* GET /tools
Tools ==
  /\ UNCHANGED <<mode, initDone, child, ws, procs, socks, graceTimers, raw>>
  /\ IF mcpReady
     THEN /\ nCalls + graceTimers < MaxCalls
          /\ \E w \in BOOLEAN :
               /\ w => child # 0
               /\ Commit(Respond(SendRPC(Fields, nCalls + 1, "tools/list", FALSE, Route(w)),
                                 "/tools", 0, "", nCalls + 1))
     ELSE Commit(Respond(Fields, "/tools", 200, "", 0))

\* initMCP: the promise of startLocal / connectRemote it awaits has resolved
ConnectReturned ==
  IF mode = "local"
  THEN /\ ~NoneSpawned
       /\ graceTimers = 0
       /\ ~\E k \in Calls : calls[k].probe /\ calls[k].kind = "pending"
  ELSE ~NoneConnected
\* initMCP: the 3 s wait after that is over
InitWaitElapsed ==
  /\ ~initDone
  /\ ConnectReturned
  /\ initDone' = TRUE
  /\ mcpReady' = TRUE
  /\ trace' = <<>>
  /\ UNCHANGED <<mode, child, ws, idCounter, pending, buffer, isReady, procs, socks, calls,
                 timers, graceTimers, started, raw>>

\* ---- the server: initMCP, the events of the transport, the requests ----
ServerNext ==
  \/ Start
  \/ GraceElapsed
  \/ \E c \in Children : \E chunk \in WholeLines : ChildStdoutData(c, chunk)
  \/ \E c \in Children : \E data \in StderrData : ChildStderrData(c, data)
  \/ \E c \in Children : ChildExit(c)
  \/ Connect
  \/ \E s \in Socks : WsOpen(s)
  \/ \E s \in Socks : \E text \in WsTexts : WsMessage(s, text)
  \/ \E s \in Socks : WsClose(s)
  \/ \E s \in Socks : WsError(s)
  \/ InitWaitElapsed
  \/ \E route \in UberRoutes : \E body \in BodiesOf(route) : Request(route, body)
  \/ Tools
  \/ \E k \in Calls : Timeout(k)

ServerSpec == Init /\ [][ServerNext]_vars

\* ---- properties ----
InboundMsgs == WsMsgs \cup StdoutMsgs
\* this step is the arrival of message m, as one socket message or as one stdout line
Delivers(m) ==
  \/ \E s \in Socks : WsMessage(s, Stringify(m))
  \/ \E c \in Children : ChildStdoutData(c, Utf8Encode(Stringify(m)) \o <<"LF">>)
Issued(k) == calls[k].kind # "none"

\* C2: a message whose id is present but matches no pending call settles no caller and
\* leaves the pending table (and every other field) as it was; all it does is emit one
\* "event" carrying the message.
C2_UnmatchedIdOnlyEvent ==
  [][\A m \in InboundMsgs :
       (m.id # NoId /\ pending[m.id] = 0 /\ Delivers(m))
         => /\ trace' = <<Ev("event", m)>>
            /\ UNCHANGED <<pending, calls, timers, idCounter, buffer, isReady, mcpReady,
                           child, ws>>]_vars
\* an orphan message has arrived while a call was waiting
C2_Witness ==
  /\ \E k \in Calls : calls[k].kind = "pending"
  /\ Len(trace) = 1
  /\ trace[1].ev = "event"

\* C3: when the 30 s timer of a call fires, the call is rejected with the timeout error
\* and its entry leaves the pending table in that same step; a response with that id
\* arriving later is emitted as an "event" and settles nobody.
C3_TimeoutThenOrphan ==
  [][/\ \A k \in Calls :
          Timeout(k) => /\ calls'[k].kind = "timeout"
                        /\ pending'[calls[k].id] = 0
                        /\ k \notin timers'
     /\ \A m \in InboundMsgs :
          ((\E k \in Calls : calls[k].kind = "timeout" /\ calls[k].id = m.id) /\ Delivers(m))
            => /\ trace' = <<Ev("event", m)>>
               /\ calls' = calls
               /\ pending' = pending]_vars
\* a call has timed out and a response with its id has arrived afterwards
C3_Witness ==
  \E k \in Calls :
    /\ calls[k].kind = "timeout"
    /\ Len(trace) = 1
    /\ trace[1].ev = "event"
    /\ trace[1].arg.id = calls[k].id

\* C5: whatever the order in which responses arrive, a call is only ever settled by a
\* response that carries the call's own id.
C5_SettledByOwnId ==
  \A k \in Calls :
    calls[k].kind \in {"resolved", "remoteError"} => calls[k].by.id = calls[k].id
\* the response to the second call arrived while the first was still waiting
C5_Witness ==
  /\ MaxCalls >= 2
  /\ calls[1].kind = "pending"
  /\ calls[2].kind = "resolved"

\* C7: a call made while the client holds no child and no open socket is rejected with
\* the no-connection error in the same step, and leaves neither a pending entry for its
\* id nor an armed timer.
C7_NoConnectionFailsAtOnce ==
  [][(child = 0 /\ (ws = 0 \/ socks[ws] # "open") /\ nCalls' = nCalls + 1)
       => LET k == nCalls + 1 IN
            /\ calls'[k].kind = "noConnection"
            /\ pending'[calls'[k].id] = 0
            /\ k \notin timers']_vars
\* a wrapper was called while the socket was still connecting
C7_Witness ==
  \E k \in Calls :
    /\ calls[k].kind = "noConnection"
    /\ ~calls[k].probe
    /\ ws # 0
    /\ socks[ws] = "connecting"

\* C9: ids are handed out in strictly increasing order, so a call that is still waiting
\* keeps its own entry in the pending table: no later call registers under its id.
C9_FreshIds ==
  /\ \A j, k \in Calls : (j < k /\ Issued(j) /\ Issued(k)) => calls[j].id < calls[k].id
  /\ \A k \in Calls : calls[k].kind = "pending" => pending[calls[k].id] = k
\* two calls are waiting at once
C9_Witness ==
  /\ MaxCalls >= 2
  /\ calls[1].kind = "pending"
  /\ calls[2].kind = "pending"

C1_OneOfThreeOutcomes ==
  \A k \in Calls : calls[k].kind \in {"none", "pending", "resolved", "remoteError", "timeout"}
\* C1, amended: every call gets exactly one of five outcomes (resolve, remote-error
\* reject, timeout reject, no-connection reject, write-failure reject): resolve/reject
\* is invoked at most once per call, an outcome once given never changes, and every
\* call that waits is eventually settled.
C1_ExactlyOneOutcome ==
  /\ [](\A k \in Calls : /\ calls[k].n <= 1
                         /\ (calls[k].n = 1 <=> calls[k].kind \in Settled))
  /\ [][\A k \in Calls : calls[k].kind \in Settled => calls'[k] = calls[k]]_vars
  /\ \A k \in Calls : (calls[k].kind = "pending") ~> (calls[k].kind \in Settled)
\* one call resolved and another timed out, and the transport has terminated
C1_Witness ==
  /\ \E j, k \in Calls : calls[j].kind = "resolved" /\ calls[k].kind = "timeout"
  /\ \/ \E c \in Children : procs[c] = "exited"
     \/ \E s \in Socks : socks[s] = "closed"

\* C4 as stated: when the 2 s wait of startLocal is over, isReady is true.
\* (Only the end of that wait takes a timer out of graceTimers.)
C4_ReadyWhenGraceEnds ==
  [][graceTimers' < graceTimers => isReady']_vars
\* C4, amended: when the 2 s wait is over, isReady is true or the tools/list probe has
\* just been issued; isReady is true in the step in which that probe settles (at once
\* without a connection, else on its response or its 30 s timeout); so every startLocal
\* is eventually followed by isReady being true.
C4_ReadyOnceProbeSettles ==
  /\ [][graceTimers' < graceTimers
          => \/ isReady'
             \/ \E k \in Calls : ~Issued(k) /\ calls'[k].probe /\ calls'[k].kind = "pending"]_vars
  /\ [][\A k \in Calls :
          (calls'[k].probe /\ calls'[k].kind \in Settled /\ calls[k].kind \notin Settled)
            => isReady']_vars
  /\ (graceTimers > 0) ~> isReady
\* the probe got no answer from a child that is still running, and isReady is true
C4_Witness ==
  \E k \in Calls :
    /\ calls[k].probe
    /\ calls[k].kind = "timeout"
    /\ isReady
    /\ child # 0
    /\ procs[child] = "running"

\* the messages among the complete lines of a text, in order
RECURSIVE MessagesIn(_)
MessagesIn(text) ==
  LET idx == IndexOfLF(text) IN
  IF idx = 0 THEN <<>>
  ELSE LET line == Trim(SubSeq(text, 1, idx - 1)) IN
         (IF JSONParseOk(line) THEN <<JSONParse(line)>> ELSE <<>>)
           \o MessagesIn(SubSeq(text, idx + 1, Len(text)))
\* the messages the last handler passed to handleRpcResponse, in order
Dispatched(tr) ==
  LET f == SelectSeq(tr, LAMBDA e : e.ev \in {"cb", "event", "notification"})
  IN [i \in 1..Len(f) |-> f[i].arg]

\* C6 as stated: however the output of the child is cut into chunks, each chunk
\* dispatches exactly the messages on the lines it completes (the lines of the bytes
\* printed since the last newline followed by the chunk), in order, and holds back the
\* text of the unfinished last line.
C6_ChunksYieldTheLines ==
  [][\A c \in Children : \A chunk \in NextChunks(raw[c]) :
       (buffer = Utf8Decode(raw[c]) /\ ChildStdoutData(c, chunk))
         => /\ Dispatched(trace') = MessagesIn(Utf8Decode(raw[c] \o chunk))
            /\ buffer' = Utf8Decode(AfterLastLF(raw[c] \o chunk))]_vars

\* C8 as stated: the client never has more than one live connection, counting running
\* child processes and open sockets together.
C8_AtMostOneConnection ==
  Cardinality({c \in Children : procs[c] = "running"})
    + Cardinality({s \in Socks : socks[s] = "open"}) <= 1

\* the responses that carry an "error" member, whatever it holds
ErrorMsgs == {m \in InboundMsgs : m.error # "undefined"}

\* C11 as stated: a call is never resolved by a response whose error member is present,
\* whatever that member holds.
C11_AnyErrorRejects ==
  \A k \in Calls :
    calls[k].kind = "resolved" => calls[k].by.error = "undefined"
\* C11, amended: a response that matches a pending call and whose error member holds a
\* truthy value (an error object) rejects that call with a remote error carrying the
\* error payload and removes its entry, and no call is ever resolved by such a
\* response; a response whose error member is null resolves the call.
C11_TruthyErrorRejects ==
  /\ [][\A m \in ErrorMsgs :
          (m.id # NoId /\ pending[m.id] # 0 /\ Delivers(m))
            => LET k == pending[m.id] IN
                 /\ pending'[m.id] = 0
                 /\ calls'[k].n = 1
                 /\ IF m.error = "object"
                    THEN /\ calls'[k].kind = "remoteError"
                         /\ calls'[k].val = [t |-> "Error", error |-> m.error]
                    ELSE calls'[k].kind = "resolved"]_vars
  /\ [](\A k \in Calls : calls[k].kind = "resolved" => calls[k].by.error # "object")
\* one call rejected by an error object and another resolved by a response with error null
C11_Witness ==
  \E j, k \in Calls :
    /\ calls[j].kind = "remoteError" /\ calls[j].by.error = "object"
    /\ calls[k].kind = "resolved" /\ calls[k].by.error = "null"

\* a close() that changes something
CloseChanges == Close /\ vars' # vars
\* C12: after close() the client references no child and no socket and ready() is false,
\* and a close() issued right after it completes and changes nothing.
C12_CloseIdempotent ==
  [][Close => /\ child' = 0
              /\ ws' = 0
              /\ ~Ready'
              /\ (ENABLED Close)'
              /\ ~(ENABLED CloseChanges)']_vars
\* close() has killed the child and closed the socket the client held, and it was ready
C12_Witness ==
  /\ child = 0
  /\ ws = 0
  /\ ~Ready
  /\ \E c \in Children : procs[c] = "killed"
  /\ \E s \in Socks : socks[s] = "closing"

\* the six routes C13 names
C13_Routes ==
  {"/uber/auth-url", "/uber/set-access-token", "/uber/price-estimates",
   "/uber/request-ride", "/uber/ride-status/:request_id", "/uber/cancel-ride"}
C14_Required(r) ==
  IF r = "/uber/request-ride"
  THEN {"product_id", "start_latitude", "start_longitude", "end_latitude", "end_longitude"}
  ELSE {"start_latitude", "start_longitude", "end_latitude", "end_longitude"}
C14_Operation(r) ==
  IF r = "/uber/request-ride" THEN "uber_request_ride" ELSE "uber_get_price_estimates"
\* C14 as stated: with the backend ready, a POST to /uber/price-estimates or
\* /uber/request-ride is answered with 400, and calls nothing on the client, exactly when
\* one of its required fields is missing; with every required field present, whatever
\* its value, the handler calls the corresponding backend operation.
C14_MissingFieldExactly400 ==
  [][\A r \in {"/uber/price-estimates", "/uber/request-ride"} : \A b \in Bodies :
       (mcpReady /\ Request(r, b))
         => IF \E f \in C14_Required(r) : b[f] = "undefined"
            THEN /\ trace' = <<Ev("http", [route |-> r, status |-> 400, tool |-> "", call |-> 0])>>
                 /\ UNCHANGED <<calls, pending, timers, idCounter>>
            ELSE /\ Len(trace') = 1
                 /\ trace'[1].arg.status = 0
                 /\ trace'[1].arg.tool = C14_Operation(r)
                 /\ ~Issued(trace'[1].arg.call)
                 /\ calls'[trace'[1].arg.call].method = "tools/call"]_vars

\* C15: the arrival of a parsed message does exactly one of three things.  (1) Its id
\* is in the pending table: the callback of that call runs, the call (and no other) is
\* settled, its entry is removed, and neither "event" nor "notification" is emitted.
\* (2) Its id is present but not in the table: one "event" carrying the message is
\* emitted, and table and calls are unchanged.  (3) It has no id: one "notification"
\* carrying the message is emitted, and table and calls are unchanged.
C15_OneOfThreeEffects ==
  [][\A m \in InboundMsgs :
       Delivers(m)
         => IF m.id = NoId
            THEN /\ trace' = <<Ev("notification", m)>>
                 /\ UNCHANGED <<pending, calls, timers>>
            ELSE IF pending[m.id] = 0
            THEN /\ trace' = <<Ev("event", m)>>
                 /\ UNCHANGED <<pending, calls, timers>>
            ELSE LET k == pending[m.id] IN
                 /\ trace' = <<Ev("cb", m)>>
                 /\ calls[k].kind = "pending"
                 /\ calls'[k].kind \in {"resolved", "remoteError"}
                 /\ calls'[k].by = m
                 /\ \A j \in Calls \ {k} : calls'[j] = calls[j]
                 /\ pending' = [pending EXCEPT ![m.id] = 0]]_vars
\* a message has just settled one call through its callback while another call is
\* still in the table
C15_Witness ==
  /\ Len(trace) = 1
  /\ trace[1].ev = "cb"
  /\ \E k \in Calls : calls[k].kind \in {"resolved", "remoteError"} /\ calls[k].by = trace[1].arg
                        /\ pending[calls[k].id] = 0
  /\ \E i \in Ids : pending[i] # 0

\* a step in which the transport terminates
Terminates ==
  \/ \E c \in Children : ChildExit(c)
  \/ \E s \in Socks : WsClose(s)
  \/ Close
\* C16: the exit of the child, the close of the socket and close() leave the pending
\* table, the armed timers and every call as they were; a call that is waiting stops
\* waiting only when its own timer fires or a message carrying its id is dispatched.
C16_TerminationKeepsPending ==
  /\ [][Terminates => UNCHANGED <<pending, timers, calls>>]_vars
  /\ [][\A k \in Calls :
          (calls[k].kind = "pending" /\ calls'[k].kind # "pending")
            => \/ Timeout(k)
               \/ \E m \in InboundMsgs : m.id = calls[k].id /\ Delivers(m)]_vars
\* the client holds no connection any more, its child has exited, and a call is still
\* in the table with its timer armed
C16_Witness ==
  /\ child = 0
  /\ ws = 0
  /\ \E c \in Children : procs[c] = "exited"
  /\ \E k \in Calls : /\ calls[k].kind = "pending"
                      /\ k \in timers
                      /\ pending[calls[k].id] = k

\* C17: (a) a probe is issued only by the end of a 2 s wait that finds isReady false,
\* and the end of a 2 s wait that finds it true issues no call; (b) the step in which a
\* probe settles, whatever its outcome, leaves isReady true and is the step in which
\* startLocal resolves; (c) no startLocal promise is ever rejected.
C17_ProbeOnlyIfNotReady ==
  /\ [][\A k \in Calls :
          (~Issued(k) /\ calls'[k].probe) => (graceTimers' < graceTimers /\ ~isReady)]_vars
  /\ [][(graceTimers' < graceTimers /\ isReady)
          => UNCHANGED <<calls, pending, timers, idCounter>>]_vars
  /\ [][\A k \in Calls :
          (calls'[k].probe /\ calls[k].kind \notin Settled /\ calls'[k].kind \in Settled)
            => /\ isReady'
               /\ started'.resolved = started.resolved + 1]_vars
  /\ [](started.rejected = 0)
\* a probe sent after the child had exited failed for want of a connection, and
\* startLocal resolved with isReady true
C17_Witness ==
  /\ isReady
  /\ started.resolved = 1
  /\ \E k \in Calls : calls[k].probe /\ calls[k].kind = "noConnection"

\* C18: startLocal called while this.child is set spawns nothing, arms no 2 s timer (so
\* no probe follows), emits nothing and leaves the child reference, isReady, the pending
\* table, the id counter, the buffer and everything else as they were.
C18_StartLocalNoOp ==
  [][(child # 0 /\ StartLocal)
       => /\ trace' = <<>>
          /\ UNCHANGED <<child, procs, graceTimers, isReady, mcpReady, pending, idCounter,
                         buffer, calls, timers, started, ws, socks>>]_vars
\* the client holds a running child, is ready and has a call waiting; another process
\* could still be spawned
C18_Witness ==
  /\ child # 0
  /\ procs[child] = "running"
  /\ isReady
  /\ \E i \in Ids : pending[i] # 0
  /\ \E c \in Children : procs[c] = "none"
  /\ graceTimers = 0
  /\ trace = <<>>

\* this step is the arrival of the complete stdout line l / of the socket message t
StdoutLine(l) == \E c \in Children : ChildStdoutData(c, l \o <<"LF">>)
SocketText(t) == \E s \in Socks : WsMessage(s, t)
\* what malformed input leaves alone: the calls, the table and its timers, readiness,
\* the connection; and nothing of it stays in the buffer
C19_Untouched ==
  /\ UNCHANGED <<pending, calls, timers, idCounter, isReady, mcpReady, child, ws, procs,
                 socks, started>>
  /\ buffer' = <<>>
\* C19 as stated: every complete stdout line that is not valid JSON is emitted as one
\* "log" event.
C19_BadLineIsLogged ==
  [][\A l \in {<<"x">>, <<"SP">>} :
       StdoutLine(l) => (Len(trace') = 1 /\ trace'[1].ev = "log")]_vars
\* C19, amended: a complete stdout line that is not valid JSON and not blank is emitted
\* as one "log" event carrying the line; a blank line (only whitespace) is skipped
\* without any event; a socket message that is not valid JSON is dropped without any
\* event.  In all three cases calls, table, timers, readiness and connection are
\* unchanged and the buffer is left empty for the next line.
C19_BadInputHarmless ==
  /\ [][StdoutLine(<<"x">>)
          => /\ trace' = <<Ev("log", [t |-> "string", chars |-> <<"x">>])>>
             /\ C19_Untouched]_vars
  /\ [][StdoutLine(<<"SP">>) => (trace' = <<>> /\ C19_Untouched)]_vars
  /\ [][SocketText(<<"x">>) => (trace' = <<>> /\ C19_Untouched)]_vars
\* a line that is not JSON has just been logged while a call is waiting and the client
\* is ready
C19_Witness ==
  /\ trace = <<Ev("log", [t |-> "string", chars |-> <<"x">>])>>
  /\ isReady
  /\ \E k \in Calls : calls[k].kind = "pending" /\ pending[calls[k].id] = k

\* C20 as stated: whenever ready() returns true the client holds a connection: a child
\* reference, or a socket that has opened and whose close event is still to come.
C20_ReadyImpliesConnection ==
  Ready => (child # 0 \/ (ws # 0 /\ socks[ws] \in {"open", "closing"}))

\* C21 as stated: the exit event of a child the client no longer references (it has
\* spawned another one since) leaves the reference to the new child and isReady as
\* they were.
C21_OldExitSparesReplacement ==
  [][\A c \in Children :
       (child # 0 /\ child # c /\ ChildExit(c)) => UNCHANGED <<child, isReady>>]_vars

\* C22: in every state the pending table and the armed 30 s timers correspond one to
\* one: every entry belongs to a call that is still waiting, carries that call's id and
\* has its timer armed, and every armed timer belongs to a call that is in the table
\* under its id.
C22_PendingMatchesTimers ==
  /\ \A i \in Ids :
       pending[i] # 0 => /\ pending[i] \in timers
                         /\ calls[pending[i]].id = i
                         /\ calls[pending[i]].kind = "pending"
  /\ \A k \in timers : /\ calls[k].id \in Ids
                       /\ pending[calls[k].id] = k
\* one call has failed on the write to the child, another is in the table with its
\* timer armed
C22_Witness ==
  \E j, k \in Calls :
    /\ calls[j].kind = "writeError"
    /\ calls[k].kind = "pending"
    /\ k \in timers
    /\ pending[calls[k].id] = k

\* the messages with an id that a restarted child prints
RestartMsgs == {Msg(1, <<"r">>, "undefined")}
\* C23 as stated: when every child spawned before the current one has exited, a
\* complete line the current child prints from the start of a line is dispatched as
\* written: the message it holds reaches the callback of its call or is emitted as one
\* "event", whatever an earlier child left unterminated.
C23_NewChildLineAsWritten ==
  [][\A c \in Children : \A m \in RestartMsgs :
       (/\ child = c
        /\ raw[c] = <<>>
        /\ \A d \in Children \ {c} : procs[d] \in {"none", "exited"}
        /\ ChildStdoutData(c, Utf8Encode(Stringify(m)) \o <<"LF">>))
         => (trace' = <<Ev("cb", m)>> \/ trace' = <<Ev("event", m)>>)]_vars

\* the transport has terminated and the client holds no connection
Terminated ==
  /\ child = 0
  /\ ws = 0
  /\ \/ \E c \in Children : procs[c] = "exited"
     \/ \E s \in Socks : socks[s] = "closed"
\* C24 as stated: a step in which the exit of the child or the close of the socket turns
\* isReady from true to false leaves the server's mcpReady false as well.
C24_McpReadyFollowsTermination ==
  [][(isReady /\ ~isReady' /\ Terminated') => ~mcpReady']_vars
====
